---- MODULE Spec2Model ----
(***************************************************************************)
(* Model of scripts/generate_placeholders.py: the placeholder resource     *)
(* generator of the game client.  The driver main() walks three static     *)
(* tables (IMAGE_SPECS, FONT_FILES, AUDIO_SPECS) and calls one generator   *)
(* per entry; each generator writes one file under RESOURCES_DIR.          *)
(*                                                                         *)
(* A file is [exists, data]; data is the sequence of encoded objects the   *)
(* file holds (one after a truncating write, none for a 0-byte file).      *)
(* The encoders of Pillow, fontTools and wave are deterministic functions  *)
(* of their arguments: an encoded object is the record of the arguments    *)
(* the script hands to the encoder.                                        *)
(***************************************************************************)
EXTENDS Integers, Sequences, FiniteSets, TLC

VARIABLES
    images,     \* the image table main() iterates      (IMAGE_SPECS)
    fonts,      \* the font table main() iterates       (FONT_FILES)
    audio,      \* the audio table main() iterates      (AUDIO_SPECS)
    font_env,   \* the installed Pillow: load_default(size=) support, glyph extents
    fs,         \* the file system: resolved path -> file
    pc,         \* position of main(): start, images, fonts, audio, done, failed
    idx,        \* index of the next entry of the current table
    out,        \* lines printed to stdout by this run
    calls,      \* generator calls of this run, in order, with their outcome
    run,        \* number of the current run of the script
    prev,       \* the file system as it was when the current run started
    req         \* the arguments of a single generator call (generator-level runs)

vars == <<images, fonts, audio, font_env, fs, pc, idx, out, calls, run, prev, req>>

\* -------------------------------------------------------------------------
\* Bounds of the model
\* -------------------------------------------------------------------------
MaxRuns == 2
MaxTable == 2
MaxSide == 6
MaxDurNum == 9
MaxRate == 5
MaxOff == 2

\* -------------------------------------------------------------------------
\* Configuration (lines 25-81)
\* -------------------------------------------------------------------------
RESOURCES_DIR == "application/resources"

IMAGE_SPECS_dup ==
    << <<"images/player.png", 64, 64, "#5B8DEE", "P", "PNG">>,
       <<"icons/quest.png", 32, 32, "#D0A040", "Q", "PNG">>,
       <<"icons/quest.png", 32, 32, "#D0A040", "Qu", "PNG">> >>

IMAGE_SPECS ==
    << <<"images/player.png",        64,   64,  "#5B8DEE", "P",  "PNG">>,
       <<"images/enemies.png",       64,   64,  "#EE5B5B", "E",  "PNG">>,
       <<"images/items.png",         32,   32,  "#F0C040", "I",  "PNG">>,
       <<"images/main_menu_bg.jpg", 1280, 720,  "#1A1A3E", "BG", "JPEG">>,
       <<"images/app_icon.png",      64,   64,  "#40B050", "G",  "PNG">>,
       <<"icons/new_game.png",       32,   32,  "#6090D0", "N",  "PNG">>,
       <<"icons/load_game.png",      32,   32,  "#6090D0", "L",  "PNG">>,
       <<"icons/settings.png",       32,   32,  "#808080", "S",  "PNG">>,
       <<"icons/exit.png",           32,   32,  "#D06060", "X",  "PNG">>,
       <<"icons/warrior.png",        32,   32,  "#C08040", "W",  "PNG">>,
       <<"icons/mage.png",           32,   32,  "#8040C0", "M",  "PNG">>,
       <<"icons/archer.png",         32,   32,  "#40C040", "A",  "PNG">>,
       <<"icons/inventory.png",      32,   32,  "#A0A060", "In", "PNG">>,
       <<"icons/quests.png",         32,   32,  "#D0A040", "Q",  "PNG">>,
       <<"icons/skills.png",         32,   32,  "#40A0D0", "Sk", "PNG">>,
       <<"icons/skill_1.png",        32,   32,  "#E06040", "1",  "PNG">>,
       <<"icons/skill_2.png",        32,   32,  "#40B0E0", "2",  "PNG">>,
       <<"icons/skill_3.png",        32,   32,  "#60E060", "3",  "PNG">>,
       <<"icons/save.png",           32,   32,  "#5080C0", "Sv", "PNG">>,
       <<"icons/chapter.png",        32,   32,  "#7060A0", "Ch", "PNG">>,
       <<"icons/location.png",       32,   32,  "#60A060", "Lo", "PNG">>,
       <<"icons/time.png",           32,   32,  "#A09050", "Ti", "PNG">>,
       <<"icons/quest.png",          32,   32,  "#D0A040", "Qu", "PNG">>,
       <<"icons/skill_attack.png",   32,   32,  "#E04040", "At", "PNG">>,
       <<"icons/skill_heal.png",     32,   32,  "#40E040", "He", "PNG">>,
       <<"icons/skill_fireball.png", 32,   32,  "#E08020", "Fi", "PNG">>,
       <<"icons/skill_default.png",  32,   32,  "#808080", "Df", "PNG">>,
       <<"icons/health_potion.png",  32,   32,  "#E04040", "HP", "PNG">>,
       <<"icons/mana_potion.png",    32,   32,  "#4040E0", "MP", "PNG">>,
       <<"icons/iron_sword.png",     32,   32,  "#A0A0B0", "Sw", "PNG">>,
       <<"images/player_avatar.png", 64,   64,  "#5B8DEE", "PA", "PNG">>,
       <<"images/default_item.png",  32,   32,  "#808080", "?",  "PNG">>,
       <<"images/ui/button_normal.png",  200, 50, "#3A5A8C", "BTN", "PNG">>,
       <<"images/ui/button_hover.png",   200, 50, "#4A7ABE", "BTN", "PNG">>,
       <<"images/ui/button_pressed.png", 200, 50, "#2A3A5C", "BTN", "PNG">>,
       <<"images/ui/background.png",    1280, 720, "#1E1E2E", "",   "PNG">> >>

FONT_FILES == << "fonts/game_font.ttf", "fonts/ui_font.ttf" >>

\* A duration is the rational <<numerator, denominator>> of seconds; the
\* table's integer 1 is <<1, 1>>.
AUDIO_SPECS ==
    << <<"sounds/bgm.mp3",     <<1, 1>>, 22050>>,
       <<"sounds/effects.wav", <<1, 1>>, 22050>> >>

\* -------------------------------------------------------------------------
\* Helpers
\* -------------------------------------------------------------------------
Range(s) == { s[j] : j \in 1..Len(s) }

BSeq(S, n) == UNION { [1..k -> S] : k \in 0..n }

Min(a, b) == IF a <= b THEN a ELSE b

\* out = RESOURCES_DIR / rel_path
Resolve(rel_path) == RESOURCES_DIR \o "/" \o rel_path

\* str.endswith(suffix)
endswith_exact(str, suffix) == str = suffix

endswith(str, suffix) ==
    /\ Len(str) >= Len(suffix)
    /\ SubSeq(str, Len(str) - Len(suffix) + 1, Len(str)) = suffix

\* -------------------------------------------------------------------------
\* Files
\* -------------------------------------------------------------------------
Absent == [exists |-> FALSE, data |-> <<>>]

Truncated == [exists |-> TRUE, data |-> <<>>]

Garbage == [exists |-> TRUE, data |-> << [kind |-> "garbage", bytes |-> <<71, 65, 82>>] >>]

\* img.save(out, fmt), fb.font.save(out), wave.open(out, "w"), open(out, "wb"):
\* the file is created or truncated and then holds the encoded object alone.
Write_append(old, blob) == [exists |-> TRUE, data |-> old.data \o <<blob>>]

Write(old, blob) == [exists |-> TRUE, data |-> <<blob>>]

\* -------------------------------------------------------------------------
\* generate_image (lines 88-113)
\* -------------------------------------------------------------------------
\* The encoders img.save(out, fmt) finds for the two formats of the table;
\* any other token raises before the file is opened.
SAVE == {"PNG", "JPEG"}

\* "RGBA" if fmt == "PNG" else "RGB"
ImageMode_swapped(fmt) == IF fmt = "PNG" THEN "RGB" ELSE "RGBA"

ImageMode(fmt) == IF fmt = "PNG" THEN "RGBA" ELSE "RGB"

\* try: ImageFont.load_default(size=font_size)
\* except TypeError: ImageFont.load_default()
load_default(font_size, env) ==
    IF env.legacy THEN [face |-> "bitmap"]
                  ELSE [face |-> "default", size |-> font_size]

\* draw.textbbox(xy, label, font=font): (left, top, right, bottom) of the
\* rendered label.  The glyph extents are those of the installed font:
\* offset (left, top) of the ink from the origin, advance cw per character
\* and ink height ch.
textbbox(xy, label, env) ==
    << xy[1] + env.left,
       xy[2] + env.top,
       xy[1] + env.left + env.cw * Len(label),
       xy[2] + env.top + env.ch >>

\* The draw.text call of the if-label branch (lines 97-110).
DrawLabel(width, height, label, env) ==
    LET font_size == Min(width, height) \div 3
        font == load_default(font_size, env)
        bbox == textbbox(<<0, 0>>, label, env)
        tw == bbox[3] - bbox[1]
        th == bbox[4] - bbox[2]
        x == (width - tw) \div 2
        y == (height - th) \div 2
    IN  [op |-> "text", xy |-> <<x, y>>, text |-> label, fill |-> "white", font |-> font]

generate_image(width, height, color, label, fmt, env) ==
    [kind   |-> "image",
     format |-> fmt,
     mode   |-> ImageMode(fmt),
     size   |-> <<width, height>>,
     color  |-> color,
     draws  |-> IF label # "" THEN << DrawLabel(width, height, label, env) >> ELSE <<>>]

\* -------------------------------------------------------------------------
\* generate_minimal_ttf (lines 116-153)
\* -------------------------------------------------------------------------
generate_minimal_ttf ==
    [kind       |-> "ttf",
     unitsPerEm |-> 1000,
     glyphOrder |-> <<".notdef", "space">>,
     cmap       |-> {<<32, "space">>},
     contours   |-> [g \in {".notdef", "space"} |-> 0],
     metrics    |-> [g \in {".notdef", "space"} |->
                        IF g = ".notdef" THEN <<500, 0>> ELSE <<250, 0>>],
     hhea       |-> [ascent |-> 800, descent |-> -200],
     name       |-> [familyName |-> "GamePlaceholder", styleName |-> "Regular"],
     OS2        |-> [sTypoAscender |-> 800, sTypoDescender |-> -200, sTypoLineGap |-> 0,
                     usWinAscent |-> 800, usWinDescent |-> 200]]

\* -------------------------------------------------------------------------
\* generate_wav (lines 156-167)
\* -------------------------------------------------------------------------
\* int(x) of the product num/den: truncation toward zero.
int(num, den) == IF num >= 0 THEN num \div den ELSE -((-num) \div den)

\* n_frames = int(sample_rate * duration)
n_frames_rounded(duration, sample_rate) ==
    (2 * sample_rate * duration[1] + duration[2]) \div (2 * duration[2])

n_frames(duration, sample_rate) == int(sample_rate * duration[1], duration[2])

\* b"\x00\x00" * n_frames is kept as the repeated unit and the repeat count
\* (a count below zero gives the empty bytes object).
generate_wav(duration, sample_rate) ==
    LET n == n_frames(duration, sample_rate)
        frames == [unit |-> <<0, 0>>, times |-> IF n > 0 THEN n ELSE 0]
        nchannels == 1
        sampwidth == 2
    IN  [kind      |-> "wav",
         nchannels |-> nchannels,
         sampwidth |-> sampwidth,
         framerate |-> sample_rate,
         nframes   |-> (Len(frames.unit) * frames.times) \div (sampwidth * nchannels),
         frames    |-> frames]

\* -------------------------------------------------------------------------
\* generate_silent_mp3 (lines 170-183)
\* -------------------------------------------------------------------------
header == <<255, 251, 144, 0>>

frame_data == header \o [j \in 1..100 |-> 0]

generate_silent_mp3 == [kind |-> "mp3", bytes |-> frame_data]

\* -------------------------------------------------------------------------
\* Console output
\* -------------------------------------------------------------------------
DoneLine == "\nDone. All placeholder resources generated."

\* f"{duration}": the integer, or the float with its dyadic fraction
FormatDuration(d) ==
    IF d[2] = 1 THEN ToString(d[1])
    ELSE LET r == ((d[1] % d[2]) * 100) \div d[2]
         IN  ToString(d[1] \div d[2]) \o "." \o
             (IF r = 0 THEN "0" ELSE IF r % 10 = 0 THEN ToString(r \div 10) ELSE ToString(r))

ImgLine(rel_path, width, height, fmt) ==
    "  [IMG] " \o rel_path \o "  (" \o ToString(width) \o "x" \o ToString(height)
               \o " " \o fmt \o ")"

TtfLine(rel_path) == "  [TTF] " \o rel_path

WavLine(rel_path, duration) ==
    "  [WAV] " \o rel_path \o "  (" \o FormatDuration(duration) \o "s silence)"

Mp3Line(rel_path) == "  [MP3] " \o rel_path \o "  (minimal silent frame)"

\* -------------------------------------------------------------------------
\* One generator call made by main (lines 91-92 and the save of each
\* generator).  A call either completes (the file holds the encoded object
\* and the progress line is printed) or raises, which main does not catch:
\* before the output file is opened (mkdir, unknown format) the file is
\* untouched, afterwards it is left truncated.
\* -------------------------------------------------------------------------
Call(gen, rel_path, blob, line, outcomes) ==
    \E outcome \in outcomes :
        /\ calls' = Append(calls, [gen |-> gen, path |-> rel_path, ok |-> outcome = "ok"])
        /\ IF outcome = "ok"
           THEN /\ fs' = [fs EXCEPT ![Resolve(rel_path)] = Write(@, blob)]
                /\ out' = Append(out, line)
                /\ idx' = idx + 1
                /\ pc' = pc
           ELSE /\ fs' = IF outcome = "raise_late"
                         THEN [fs EXCEPT ![Resolve(rel_path)] = Truncated]
                         ELSE fs
                /\ out' = out
                /\ idx' = idx
                /\ pc' = "failed"

Outcomes == {"ok", "raise_early", "raise_late"}

\* generate_image cannot complete when no encoder is registered for fmt, nor
\* when a label is to be drawn with a sized font of size 0 (the font loader
\* rejects it with an error that is not TypeError); both raise before the
\* output file is opened.
ImageOutcomes(width, height, label, fmt, env) ==
    IF \/ fmt \notin SAVE
       \/ label # "" /\ ~env.legacy /\ Min(width, height) \div 3 <= 0
    THEN {"raise_early"}
    ELSE Outcomes

\* -------------------------------------------------------------------------
\* main (lines 190-209)
\* -------------------------------------------------------------------------
Driver_unchanged == UNCHANGED <<images, fonts, audio, font_env, run, prev, req>>

\* lines 191-193
Start ==
    /\ pc = "start"
    /\ out' = out \o << "Resource directory: " \o RESOURCES_DIR \o "\n", "Generating images..." >>
    /\ pc' = "images"
    /\ idx' = 1
    /\ UNCHANGED <<fs, calls>>
    /\ Driver_unchanged

\* lines 194-195: generate_image(*spec)
ImageStep_swallow ==
    /\ pc = "images"
    /\ idx <= Len(images)
    /\ LET spec == images[idx]
       IN  \E ok \in BOOLEAN :
             /\ calls' = Append(calls, [gen |-> "generate_image", path |-> spec[1], ok |-> ok])
             /\ fs' = IF ok THEN [fs EXCEPT ![Resolve(spec[1])] =
                                    Write(@, generate_image(spec[2], spec[3], spec[4],
                                                            spec[5], spec[6], font_env))]
                            ELSE fs
             /\ idx' = idx + 1
             /\ UNCHANGED <<pc, out>>
    /\ Driver_unchanged

ImageStep ==
    /\ pc = "images"
    /\ idx <= Len(images)
    /\ LET spec == images[idx]
       IN  Call("generate_image", spec[1],
                generate_image(spec[2], spec[3], spec[4], spec[5], spec[6], font_env),
                ImgLine(spec[1], spec[2], spec[3], spec[6]),
                ImageOutcomes(spec[2], spec[3], spec[5], spec[6], font_env))
    /\ Driver_unchanged

\* line 197, after the image loop
ImagesDone_skip_fonts ==
    /\ pc = "images"
    /\ idx > Len(images)
    /\ out' = Append(out, "\nGenerating audio...")
    /\ pc' = "audio"
    /\ idx' = 1
    /\ UNCHANGED <<fs, calls>>
    /\ Driver_unchanged

ImagesDone ==
    /\ pc = "images"
    /\ idx > Len(images)
    /\ out' = Append(out, "\nGenerating fonts...")
    /\ pc' = "fonts"
    /\ idx' = 1
    /\ UNCHANGED <<fs, calls>>
    /\ Driver_unchanged

\* lines 198-199: generate_minimal_ttf(fpath)
FontStep ==
    /\ pc = "fonts"
    /\ idx <= Len(fonts)
    /\ Call("generate_minimal_ttf", fonts[idx], generate_minimal_ttf,
            TtfLine(fonts[idx]), Outcomes)
    /\ Driver_unchanged

\* line 201, after the font loop
FontsDone ==
    /\ pc = "fonts"
    /\ idx > Len(fonts)
    /\ out' = Append(out, "\nGenerating audio...")
    /\ pc' = "audio"
    /\ idx' = 1
    /\ UNCHANGED <<fs, calls>>
    /\ Driver_unchanged

\* lines 202-207: if rel.endswith(".wav") ... elif rel.endswith(".mp3") ...
\* (an entry matching neither suffix is passed over: there is no else)
AudioStep ==
    /\ pc = "audio"
    /\ idx <= Len(audio)
    /\ LET spec == audio[idx]
           rel == spec[1]
       IN  IF endswith(rel, ".wav")
           THEN Call("generate_wav", rel, generate_wav(spec[2], spec[3]),
                     WavLine(rel, spec[2]), Outcomes)
           ELSE IF endswith(rel, ".mp3")
           THEN Call("generate_silent_mp3", rel, generate_silent_mp3,
                     Mp3Line(rel), Outcomes)
           ELSE /\ idx' = idx + 1
                /\ UNCHANGED <<fs, pc, out, calls>>
    /\ Driver_unchanged

\* line 209
Finish ==
    /\ pc = "audio"
    /\ idx > Len(audio)
    /\ out' = Append(out, DoneLine)
    /\ pc' = "done"
    /\ UNCHANGED <<fs, idx, calls>>
    /\ Driver_unchanged

\* The script is run again after a run that completed (a new process:
\* nothing but the file system is carried over).
Rerun ==
    /\ pc = "done"
    /\ run < MaxRuns
    /\ run' = run + 1
    /\ prev' = fs
    /\ pc' = "start"
    /\ idx' = 0
    /\ out' = <<>>
    /\ calls' = <<>>
    /\ UNCHANGED <<images, fonts, audio, font_env, fs, req>>

Next ==
    \/ Start
    \/ ImageStep
    \/ ImagesDone
    \/ FontStep
    \/ FontsDone
    \/ AudioStep
    \/ Finish
    \/ Rerun

\* -------------------------------------------------------------------------
\* Initial states
\* -------------------------------------------------------------------------
NoReq == [op |-> "none"]

\* The installed Pillow: legacy when load_default takes no size (TypeError,
\* line 103), and the glyph extents of its default font.
FontEnvs ==
    [legacy : BOOLEAN, left : 0..MaxOff, top : 0..MaxOff, cw : {1, 3, 6}, ch : {2, 3, 8}]

RelPaths(imgs, fnts, auds) ==
    { imgs[j][1] : j \in 1..Len(imgs) } \cup Range(fnts) \cup { auds[j][1] : j \in 1..Len(auds) }

\* Table entries of the table-level specification: well-formed ones, an image
\* entry with a format token no encoder is registered for, an audio entry
\* with neither suffix.
ImagePool ==
    { <<"a.png", 4, 4, "#101010", "A", "PNG">>,
      <<"b.jpg", 6, 3, "#202020", "", "JPEG">>,
      <<"c.tga", 4, 4, "#303030", "C", "TGA32">> }

FontPool == { "f.ttf" }

AudioPool ==
    { <<"s.wav", <<1, 2>>, 4>>,
      <<"s.mp3", <<1, 1>>, 4>>,
      <<"s.ogg", <<1, 1>>, 4>> }

Unrelated == "README.txt"

\* The files of the resource directory a run with these relative paths can
\* touch, and one it cannot.
FsPaths(rels) == { Resolve(p) : p \in rels \cup {Unrelated} }

\* The resource directory before the first run: empty, every target an
\* existing 0-byte file, or one path holding unrelated content.
InitFs(rels) ==
    LET all == FsPaths(rels)
        t == { Resolve(p) : p \in rels }
    IN  { [p \in all |-> Absent],
          [p \in all |-> IF p \in t THEN Truncated ELSE Absent] }
        \cup { [p \in all |-> IF p = q THEN Garbage ELSE Absent] : q \in all }
        \cup { [p \in all |-> IF p = q THEN Truncated ELSE Absent] : q \in t }

InitRun ==
    /\ pc = "start"
    /\ idx = 0
    /\ out = <<>>
    /\ calls = <<>>
    /\ run = 1
    /\ prev = fs
    /\ req = NoReq

Init ==
    /\ images = IMAGE_SPECS
    /\ fonts = FONT_FILES
    /\ audio = AUDIO_SPECS
    /\ font_env \in { e \in FontEnvs : e.left = 0 /\ e.top = 1 /\ e.cw = 3 /\ e.ch = 3 }
    /\ fs \in InitFs(RelPaths(IMAGE_SPECS, FONT_FILES, AUDIO_SPECS))
    /\ InitRun

Spec == Init /\ [][Next]_vars

\* Any small tables, malformed entries included.
InitTables ==
    /\ images \in BSeq(ImagePool, MaxTable)
    /\ fonts \in BSeq(FontPool, 1)
    /\ audio \in BSeq(AudioPool, MaxTable)
    /\ font_env = [legacy |-> FALSE, left |-> 0, top |-> 1, cw |-> 3, ch |-> 3]
    /\ fs \in LET all == FsPaths({ e[1] : e \in ImagePool } \cup FontPool \cup { e[1] : e \in AudioPool })
              IN  { [p \in all |-> Absent], [p \in all |-> Garbage] }
    /\ InitRun

SpecTables == InitTables /\ [][Next]_vars

\* =========================================================================
\* Properties of the driver (specification Spec: the tables of the script)
\* =========================================================================
\* The number of table entries, and the relative path of the j-th entry in
\* driver order: images, then fonts, then audio.
NumEntries == Len(images) + Len(fonts) + Len(audio)

OrderPath(j) ==
    IF j <= Len(images) THEN images[j][1]
    ELSE IF j <= Len(images) + Len(fonts) THEN fonts[j - Len(images)]
    ELSE audio[j - Len(images) - Len(fonts)][1]

\* The generator main uses for the j-th entry in driver order.
OrderGen(j) ==
    IF j <= Len(images) THEN {"generate_image"}
    ELSE IF j <= Len(images) + Len(fonts) THEN {"generate_minimal_ttf"}
    ELSE {"generate_wav", "generate_silent_mp3"}

\* The object generated for the j-th entry in driver order.
Generated(j) ==
    IF j <= Len(images)
    THEN LET e == images[j] IN generate_image(e[2], e[3], e[4], e[5], e[6], font_env)
    ELSE IF j <= Len(images) + Len(fonts)
    THEN generate_minimal_ttf
    ELSE LET e == audio[j - Len(images) - Len(fonts)]
         IN  IF endswith(e[1], ".wav") THEN generate_wav(e[2], e[3]) ELSE generate_silent_mp3

HoldsGenerated(j) ==
    LET f == fs[Resolve(OrderPath(j))]
    IN  f.exists /\ f.data # <<>> /\ f.data = << Generated(j) >>

\* C1: generators are invoked in a fixed order, every IMAGE_SPECS entry in
\* table order, then every FONT_FILES entry, then every AUDIO_SPECS entry: the
\* calls made so far are always a prefix of that order, and the completion
\* line is printed only after every entry of all three tables has been
\* generated successfully.
C1_FixedOrder ==
    /\ Len(calls) <= NumEntries
    /\ \A j \in 1..Len(calls) : calls[j].path = OrderPath(j) /\ calls[j].gen \in OrderGen(j)
    /\ (DoneLine \in Range(out) \/ pc = "done") =>
           /\ Len(calls) = NumEntries
           /\ \A j \in 1..Len(calls) : calls[j].ok

C1_Witness ==
    /\ pc = "done"
    /\ DoneLine \in Range(out)
    /\ Len(calls) = Len(IMAGE_SPECS) + Len(FONT_FILES) + Len(AUDIO_SPECS)
    /\ calls[Len(IMAGE_SPECS) + 1].gen = "generate_minimal_ttf"

\* C2: when the generator call for the k-th entry fails the run aborts at that
\* point: the failed call is the last call, the run is in its aborted state
\* from which no step (no later call, no retry) is possible, the completion
\* line is not printed, and the files of entries 1..k-1 hold their generated
\* content.
C2_AbortOnFailure ==
    \A k \in 1..Len(calls) :
        ~calls[k].ok =>
            /\ k = Len(calls)
            /\ pc = "failed"
            /\ ~ENABLED Next
            /\ DoneLine \notin Range(out)
            /\ \A j \in 1..(k - 1) : calls[j].ok /\ HoldsGenerated(j)

C2_Witness ==
    /\ pc = "failed"
    /\ Len(calls) = Len(IMAGE_SPECS) + 1
    /\ ~calls[Len(calls)].ok
    /\ fs[Resolve(calls[Len(calls)].path)] = Truncated
    /\ HoldsGenerated(1)

\* C3: after a run that completes normally, from any initial content of the
\* resource directory, every relative path of the three tables exists, is
\* non-empty and holds exactly the content generated for its spec (the prior
\* content is replaced, not appended to or left stale).
C3_AllGenerated ==
    pc = "done" => \A j \in 1..NumEntries : HoldsGenerated(j)

C3_Witness ==
    /\ pc = "done"
    /\ run = 1
    /\ \E j \in 1..NumEntries : prev[Resolve(OrderPath(j))] = Garbage /\ HoldsGenerated(j)

\* C4: running the generator is idempotent: the resource directory after a
\* second consecutive successful run equals the one the first run left, in
\* particular the font files and the mp3 file.
C4_Idempotent ==
    (pc = "done" /\ run >= 2) => fs = prev

C4_Witness ==
    /\ pc = "done"
    /\ run = 2
    /\ fs[Resolve("fonts/game_font.ttf")].data = << generate_minimal_ttf >>
    /\ fs[Resolve("sounds/bgm.mp3")].data = << generate_silent_mp3 >>

\* C5: the relative paths of the three tables are pairwise distinct, so within
\* one run every output path is written at most once, a file written by an
\* earlier call is not modified by a later call, and no file other than those
\* at the resolved paths of the calls made differs from what it was when the
\* run started.
C5_DistinctPaths ==
    /\ \A i, j \in 1..NumEntries : OrderPath(i) = OrderPath(j) => i = j
    /\ \A i, j \in 1..Len(calls) : calls[i].path = calls[j].path => i = j
    /\ \A j \in 1..Len(calls) : calls[j].ok => HoldsGenerated(j)
    /\ LET written == { Resolve(calls[j].path) : j \in 1..Len(calls) }
       IN  \A p \in (DOMAIN fs) \ written : fs[p] = prev[p]

C5_Witness ==
    /\ Len(calls) = NumEntries
    /\ calls[Len(calls)].ok
    /\ fs[Resolve(Unrelated)] = Garbage

\* -------------------------------------------------------------------------
\* The MPEG audio frame header layout (ISO/IEC 11172-3): 11 sync bits,
\* 2 version bits, 2 layer bits, protection bit; 4 bitrate bits, 2 sample
\* rate bits, padding bit, private bit; 2 channel mode bits, ...
\* -------------------------------------------------------------------------
MpegSync(h) == h[1] * 8 + h[2] \div 32

MpegVersion(h) == (h[2] \div 8) % 4

MpegLayer(h) == (h[2] \div 2) % 4

MpegNoCrc(h) == h[2] % 2 = 1

\* kbit/s of MPEG1 Layer III by bitrate index 1..14
MpegBitrate(h) ==
    LET i == h[3] \div 16
    IN  IF i \in 1..14
        THEN <<32, 40, 48, 56, 64, 80, 96, 112, 128, 160, 192, 224, 256, 320>>[i]
        ELSE 0

\* Hz of MPEG1 by sample rate index 0..2
MpegSampleRate(h) ==
    LET i == (h[3] \div 4) % 4
    IN  IF i \in 0..2 THEN <<44100, 48000, 32000>>[i + 1] ELSE 0

MpegPadding(h) == (h[3] \div 2) % 2

MpegChannelMode(h) == h[4] \div 64

\* bytes of a Layer III frame: 144 * bitrate / sample rate + padding
MpegFrameSize(h) ==
    IF MpegSampleRate(h) = 0 THEN 0
    ELSE (144 * MpegBitrate(h) * 1000) \div MpegSampleRate(h) + MpegPadding(h)

Mp3Blobs ==
    { b \in UNION { Range(fs[p].data) : p \in DOMAIN fs } : b.kind = "mp3" }

\* C7: the file written by generate_silent_mp3 is a 4-byte header followed
\* only by zero bytes; the header decodes to sync set, MPEG1, Layer 3, no CRC,
\* 32 kbps (the minimum bitrate), 44100 Hz, stereo; and the file length is
\* the frame size implied by the bitrate and sample rate the header encodes.
C7_Mp3Header ==
    \A b \in Mp3Blobs :
        LET h == SubSeq(b.bytes, 1, 4)
        IN  /\ Len(b.bytes) >= 4
            /\ \A j \in 5..Len(b.bytes) : b.bytes[j] = 0
            /\ MpegSync(h) = 2047
            /\ MpegVersion(h) = 3
            /\ MpegLayer(h) = 1
            /\ MpegNoCrc(h)
            /\ MpegBitrate(h) = 32
            /\ MpegSampleRate(h) = 44100
            /\ MpegChannelMode(h) = 0
            /\ Len(b.bytes) = MpegFrameSize(h)

\* =========================================================================
\* Properties of the driver over any tables (specification SpecTables)
\* =========================================================================
MalformedImage(e) == e[6] \notin {"PNG", "JPEG"}

MalformedAudio(e) == ~endswith(e[1], ".wav") /\ ~endswith(e[1], ".mp3")

\* C9: the driver never silently skips a table entry: a run that completes
\* normally has invoked exactly one generator for every entry of the three
\* tables, and a malformed entry (an image entry with an unsupported format
\* token, an audio entry whose path matches neither generator) aborts the
\* run instead of being passed over.
C9_NoSilentSkip ==
    pc = "done" =>
        /\ Len(calls) = NumEntries
        /\ \A j \in 1..Len(calls) : calls[j].path = OrderPath(j)
        /\ \A j \in 1..Len(images) : ~MalformedImage(images[j])
        /\ \A j \in 1..Len(audio) : ~MalformedAudio(audio[j])

\* =========================================================================
\* Single generator calls (specification SpecGen): one call of generate_image
\* or generate_wav with arguments drawn from bounded sets, into an empty
\* resource directory.
\* =========================================================================
ImageReqs ==
    [op : {"generate_image"}, rel_path : {"a.png"},
     width : (1..MaxSide) \cup {32}, height : (1..MaxSide) \cup {32},
     color : {"#5B8DEE"}, label : {"", "P", "BG"}, fmt : {"PNG", "JPEG"}]

\* Durations are dyadic, so that the float product sample_rate * duration of
\* line 161 is exact.
WavReqs ==
    [op : {"generate_wav"}, rel_path : {"s.wav"},
     duration : (1..MaxDurNum) \X {1, 2, 4}, sample_rate : 1..MaxRate]

InitGen ==
    /\ \/ req \in ImageReqs /\ font_env \in FontEnvs
       \/ req \in WavReqs /\ font_env = [legacy |-> FALSE, left |-> 0, top |-> 0, cw |-> 1, ch |-> 2]
    /\ images = <<>>
    /\ fonts = <<>>
    /\ audio = <<>>
    /\ fs = [p \in FsPaths({req.rel_path}) |-> Absent]
    /\ pc = "call"
    /\ idx = 0
    /\ out = <<>>
    /\ calls = <<>>
    /\ run = 1
    /\ prev = fs

\* generate_image(rel_path, width, height, color, label, fmt)
CallImage ==
    /\ pc = "call"
    /\ calls = <<>>
    /\ req.op = "generate_image"
    /\ Call("generate_image", req.rel_path,
            generate_image(req.width, req.height, req.color, req.label, req.fmt, font_env),
            ImgLine(req.rel_path, req.width, req.height, req.fmt),
            ImageOutcomes(req.width, req.height, req.label, req.fmt, font_env))
    /\ Driver_unchanged

\* generate_wav(rel_path, duration, sample_rate)
CallWav ==
    /\ pc = "call"
    /\ calls = <<>>
    /\ req.op = "generate_wav"
    /\ Call("generate_wav", req.rel_path, generate_wav(req.duration, req.sample_rate),
            WavLine(req.rel_path, req.duration), Outcomes)
    /\ Driver_unchanged

NextGen == CallImage \/ CallWav

SpecGen == InitGen /\ [][NextGen]_vars

\* The same calls on a Pillow whose load_default takes a size (the try branch
\* of lines 100-102).
InitGenSized == InitGen /\ ~font_env.legacy

SpecGenSized == InitGenSized /\ [][NextGen]_vars

\* The call of the request has completed, and the object its file holds.
Completed(op) == req.op = op /\ calls # <<>> /\ calls[1].ok

Written == fs[Resolve(req.rel_path)].data[1]

\* round(num / den) as Python rounds: to nearest, ties to even
Round(num, den) ==
    LET q == num \div den
        r == num % den
    IN  IF 2 * r < den THEN q
        ELSE IF 2 * r > den THEN q + 1
        ELSE IF q % 2 = 0 THEN q ELSE q + 1

WavHeaderOk ==
    /\ Written.kind = "wav"
    /\ Written.nchannels = 1
    /\ Written.sampwidth = 2
    /\ Written.framerate = req.sample_rate
    /\ Written.frames.unit = <<0, 0>>
    /\ Written.frames.times = Written.nframes

\* C6 (as claimed): the file written by generate_wav declares 1 channel,
\* 2-byte samples and the given sample rate, and holds
\* round(duration * sample_rate) samples, each two zero bytes.
C6_WavRounded ==
    Completed("generate_wav") =>
        /\ WavHeaderOk
        /\ Written.nframes = Round(req.sample_rate * req.duration[1], req.duration[2])

\* C6 (amended): ... and holds int(duration * sample_rate) samples, the
\* product truncated to the integer below it, each two zero bytes.
C6_WavTruncated ==
    Completed("generate_wav") =>
        /\ WavHeaderOk
        /\ Written.nframes * req.duration[2] <= req.sample_rate * req.duration[1]
        /\ req.sample_rate * req.duration[1] < (Written.nframes + 1) * req.duration[2]

C6_Witness ==
    /\ Completed("generate_wav")
    /\ req.duration = <<3, 4>>
    /\ req.sample_rate = 2
    /\ Written.nframes = 1
    /\ fs[Resolve(req.rel_path)].exists

\* C8: generate_image writes a canvas of exactly the specified width and
\* height, in mode RGBA (with alpha) when the format is PNG and RGB (without
\* alpha) when it is JPEG, saved in exactly the requested format.
C8_ImageCanvas ==
    Completed("generate_image") =>
        /\ Written.kind = "image"
        /\ Written.size = <<req.width, req.height>>
        /\ Written.format = req.fmt
        /\ (Written.mode \in {"RGBA", "LA", "PA"}) <=> (req.fmt = "PNG")
        /\ Written.mode = IF req.fmt = "PNG" THEN "RGBA" ELSE "RGB"

C8_Witness ==
    /\ Completed("generate_image")
    /\ req.fmt = "JPEG"
    /\ req.width = 4
    /\ req.height = 2
    /\ Written.mode = "RGB"
    /\ Written.size = <<4, 2>>

Abs(n) == IF n < 0 THEN -n ELSE n

\* C10: a label is drawn iff it is non-empty; when drawn, the font size is
\* min(width, height) // 3 and the measured box of the label ends up centered:
\* its left and right margins differ by at most 1 pixel, and so do its top
\* and bottom margins, whatever the offset of the measured box.
C10_LabelCentered ==
    Completed("generate_image") =>
        /\ (Written.draws # <<>>) <=> (req.label # "")
        /\ Written.draws # <<>> =>
               LET d == Written.draws[1]
                   box == textbbox(d.xy, d.text, font_env)
               IN  /\ d.font = [face |-> "default", size |-> Min(req.width, req.height) \div 3]
                   /\ Abs(box[1] - (req.width - box[3])) <= 1
                   /\ Abs(box[2] - (req.height - box[4])) <= 1

====
